---- MODULE Spec2Model ----
(***************************************************************************)
(* Model of crypto_tracker.py: the background refresh loop (update_prices, *)
(* update_prices_async, get_products behind cache_with_timeout,            *)
(* fetch_price_async, update_window) and the script body that reads the    *)
(* shared session state (compute_pct_change in the tab1 loop).             *)
(*                                                                         *)
(* Time is a clock in seconds (now).  A price is an integer; a percentage  *)
(* is an exact fraction <<numerator, denominator>>.                        *)
(***************************************************************************)
EXTENDS Integers, Sequences, FiniteSets, TLC

VARIABLES
    now,              \* wall clock, seconds (datetime.now() / time.time())
    price_windows,    \* st.session_state.price_windows: insertion-ordered dict,
                      \*   a sequence of [id, window]; window = sequence of <<time, price>>
    last_update,      \* st.session_state.last_update
    crypto_logos,     \* st.session_state.crypto_logos: symbols that have a logo url
    cache,            \* st.session_state[cache_key] of get_products (NoValue = key absent)
    cache_time,       \* st.session_state[cache_key + "_time"]
    update_thread,    \* 'update_thread' in st.session_state
    started,          \* number of Thread.start() calls made so far
    retrievals,       \* number of requests.get(PRODUCTS_URL) calls made so far
    last_good,        \* the last list a retrieval that did not fail produced (NoValue if none)
    t_pc,             \* per refresh thread: position in update_prices
    t_ct,             \* per thread: current_time local of cache wrapper
    t_err,            \* per thread: the except branch of get_products ran in the last call
    t_products,       \* per thread: products local of update_prices_async
    t_results,        \* per thread: price_results, one slot per task
    t_idx,            \* per thread: position of "for result in price_results"
    t_pre,            \* per thread: the deque as it was when update_window was entered
    t_wake,           \* per thread: instant at which time.sleep returns
    t_begin,          \* per thread: instant at which the cycle in progress (or the last one) began
    t_done,           \* per thread: instant at which the last completed cycle ended
    c_pc,             \* script run: position in the script body
    c_pos,            \* script run: number of items the dict iterator has yielded
    c_size,           \* script run: dict size recorded by the iterator
    c_exc,            \* script run: exception that ended the run ("none" if none)
    obs               \* script run: last window read and what compute_pct_change made of it

vars == <<now, price_windows, last_update, crypto_logos, cache, cache_time,
          update_thread, started, retrievals, last_good, t_pc, t_ct, t_err,
          t_products,
          t_results, t_idx, t_pre, t_wake, t_begin, t_done,
          c_pc, c_pos, c_size, c_exc, obs>>

sharedVars == <<price_windows, last_update, crypto_logos>>
cacheVars == <<cache, cache_time, retrievals, last_good>>
threadVars == <<t_pc, t_ct, t_err, t_products, t_results, t_idx, t_pre, t_wake,
               t_begin, t_done>>
scriptVars == <<c_pc, c_pos, c_size, c_exc, obs>>

----------------------------------------------------------------------------
(* Program constants *)

WINDOW_SECONDS == 300

UPDATE_INTERVAL == 30

MAX_WORKERS == 10

CACHE_TIMEOUT == 300

DEQUE_MAXLEN == 100

----------------------------------------------------------------------------
(* Bounds of the model *)

MaxClock == 302

MaxThreads == 2

MaxClockW == 302

NumFanProducts == 11

Threads == 1..MaxThreads

TickSteps == {150, 151}

Prices == {0, 100}

\* a session-state key that is absent holds <<>>, one that is set holds <<value>>
NoValue == <<>>

\* Python's None, as a function result
None == [kind |-> "None"]

\* the slot of a task of asyncio.gather that has not settled yet
Pending == [kind |-> "Pending"]

----------------------------------------------------------------------------
(* Exact fractions: <<n, d>> with d > 0 and gcd(|n|, d) = 1 *)

Abs(x) == IF x < 0 THEN -x ELSE x

RECURSIVE GCD(_, _)
GCD(a, b) == IF b = 0 THEN a ELSE GCD(b, a % b)

Frac(n, d) ==
    LET s == IF d < 0 THEN -1 ELSE 1
        g == GCD(Abs(n), Abs(d))
    IN  <<(s * n) \div g, (s * d) \div g>>

FracMul(q, k) == Frac(q[1] * k, q[2])

----------------------------------------------------------------------------
(* The insertion-ordered dict st.session_state.price_windows *)

Keys(d) == {d[i].id : i \in DOMAIN d}

HasKey(d, k) == k \in Keys(d)

IndexOf(d, k) == CHOOSE i \in DOMAIN d : d[i].id = k

GetWin(d, k) == d[IndexOf(d, k)].window

SetWin(d, k, w) == [d EXCEPT ![IndexOf(d, k)].window = w]

NewDeque(d, k) == Append(d, [id |-> k, window |-> <<>>])

----------------------------------------------------------------------------
(* update_window and the deque it works on *)

\* (variant: a deque built without maxlen)
deque_append_unbounded(window, item) == Append(window, item)

\* deque(maxlen=100).append: a full deque discards its leftmost item
deque_append(window, item) ==
    IF Len(window) >= DEQUE_MAXLEN
    THEN Tail(window) \o <<item>>
    ELSE Append(window, item)

\* (variant: ">=" in place of ">")
stale_in_ge(window, current_time, seconds) ==
    /\ window # <<>>
    /\ current_time - window[1][1] >= seconds

\* the guard of the while loop of update_window, for a given value of WINDOW_SECONDS
stale_in(window, current_time, seconds) ==
    /\ window # <<>>
    /\ current_time - window[1][1] > seconds

\* the guard of the while loop of update_window
stale(window, current_time) == stale_in(window, current_time, WINDOW_SECONDS)

\* (variant: "if" in place of "while", a single popleft)
evict_once(window, current_time) ==
    IF stale(window, current_time) THEN Tail(window) ELSE window

\* the while loop of update_window run to its end
RECURSIVE evict(_, _)
evict(window, current_time) ==
    IF stale(window, current_time)
    THEN evict(Tail(window), current_time)
    ELSE window

update_window(window, current_time, price) ==
    deque_append(evict(window, current_time), <<current_time, price>>)

\* update_window as it runs when the module constant WINDOW_SECONDS is set to seconds
RECURSIVE evict_in(_, _, _)
evict_in(window, current_time, seconds) ==
    IF stale_in(window, current_time, seconds)
    THEN evict_in(Tail(window), current_time, seconds)
    ELSE window

update_window_in(window, current_time, price, seconds) ==
    deque_append(evict_in(window, current_time, seconds), <<current_time, price>>)

----------------------------------------------------------------------------
(* compute_pct_change: None, the 5-tuple, or the exception it raises *)

ZeroDivisionError == [kind |-> "ZeroDivisionError"]

\* (variant: the change taken relative to the current price)
compute_pct_change_by_current(window) ==
    IF window = <<>>
    THEN None
    ELSE LET baseline_time  == window[1][1]
             baseline_price == window[1][2]
             current_time   == window[Len(window)][1]
             current_price  == window[Len(window)][2]
         IN  IF current_price = 0
             THEN ZeroDivisionError
             ELSE [kind |-> "tuple",
                   baseline_time |-> baseline_time, baseline_price |-> baseline_price,
                   current_time |-> current_time, current_price |-> current_price,
                   pct_change |-> FracMul(Frac(current_price - baseline_price,
                                               current_price), 100)]

compute_pct_change(window) ==
    IF window = <<>>
    THEN None
    ELSE LET baseline_time  == window[1][1]
             baseline_price == window[1][2]
             current_time   == window[Len(window)][1]
             current_price  == window[Len(window)][2]
         IN  IF baseline_price = 0
             THEN ZeroDivisionError
             ELSE [kind |-> "tuple",
                   baseline_time |-> baseline_time, baseline_price |-> baseline_price,
                   current_time |-> current_time, current_price |-> current_price,
                   pct_change |-> FracMul(Frac(current_price - baseline_price,
                                               baseline_price), 100)]

----------------------------------------------------------------------------
(* get_products: what the listing endpoint may answer, and the USD filter *)

Product(i, q) == [id |-> i, quote_currency |-> q]

PayloadAB == <<Product(1, "USD"), Product(3, "EUR"), Product(2, "USD")>>

PayloadA == <<Product(1, "USD")>>

Payloads == {PayloadAB, PayloadA}

\* requests.get / response.json() either raise or produce a payload
RequestError == [ok |-> FALSE, body |-> <<>>]

Response(payload) == [ok |-> TRUE, body |-> payload]

CatalogOutcomes == {RequestError} \cup {Response(p) : p \in Payloads}

IsUSD(p) == p.quote_currency = "USD"

\* body of get_products, given what requests.get(...).json() produced
get_products_body(outcome) ==
    IF ~outcome.ok
    THEN <<>>
    ELSE SelectSeq(outcome.body, IsUSD)

\* (variant: "<=" in place of "<")
cache_fresh_le(c, ctime, current_time) ==
    /\ c # NoValue
    /\ current_time - ctime <= CACHE_TIMEOUT

\* the cache test of cache_with_timeout.wrapper
cache_fresh(c, ctime, current_time) ==
    /\ c # NoValue
    /\ current_time - ctime < CACHE_TIMEOUT

\* product_id.split('-')[0]: ids are abstract, one base symbol per id
Symbol(id) == id

\* session.get / response.json() / float(data['price']) either raise or produce a price
FetchError == [ok |-> FALSE, price |-> 0]

Ticker(price) == [ok |-> TRUE, price |-> price]

PriceOutcomes == {FetchError} \cup {Ticker(p) : p \in Prices}

\* what fetch_price_async returns for a task, given how its request went
fetch_price_result(product_id, outcome, time) ==
    IF ~outcome.ok
    THEN None
    ELSE [kind |-> "tuple", product_id |-> product_id, time |-> time,
          price |-> outcome.price]

----------------------------------------------------------------------------
(* Initial state: the session state as lines 141-150 leave it on the first *)
(* run of the script, no refresh thread started yet.                       *)

NoObs == [kind |-> "none"]

Init ==
    /\ now = 0
    /\ price_windows = <<>>
    /\ last_update = 0
    /\ crypto_logos = {}
    /\ cache = NoValue
    /\ cache_time = 0
    /\ update_thread = FALSE
    /\ started = 0
    /\ retrievals = 0
    /\ last_good = NoValue
    /\ t_pc = [th \in Threads |-> "not_started"]
    /\ t_ct = [th \in Threads |-> 0]
    /\ t_err = [th \in Threads |-> FALSE]
    /\ t_products = [th \in Threads |-> <<>>]
    /\ t_results = [th \in Threads |-> <<>>]
    /\ t_idx = [th \in Threads |-> 1]
    /\ t_pre = [th \in Threads |-> <<>>]
    /\ t_wake = [th \in Threads |-> 0]
    /\ t_begin = [th \in Threads |-> 0]
    /\ t_done = [th \in Threads |-> 0]
    /\ c_pc = "idle"
    /\ c_pos = 0
    /\ c_size = 0
    /\ c_exc = "none"
    /\ obs = NoObs

----------------------------------------------------------------------------
(* The refresh thread: update_prices -> update_prices_async *)

\* get_products() through cache_with_timeout.wrapper, up to the cache test
GetProductsCall(th) ==
    /\ t_pc[th] = "get_products"
    /\ t_err' = [t_err EXCEPT ![th] = FALSE]
    /\ IF cache_fresh(cache, cache_time, now)
       THEN /\ t_products' = [t_products EXCEPT ![th] = cache[1]]
            /\ t_pc' = [t_pc EXCEPT ![th] = "gather"]
            /\ UNCHANGED <<t_ct, retrievals>>
       ELSE /\ t_ct' = [t_ct EXCEPT ![th] = now]
            /\ retrievals' = retrievals + 1
            /\ t_pc' = [t_pc EXCEPT ![th] = "retrieving"]
            /\ UNCHANGED t_products
    /\ UNCHANGED <<now, sharedVars, cache, cache_time, last_good, update_thread,
                   started, t_results, t_idx, t_pre, t_wake, t_begin, t_done, scriptVars>>

\* requests.get returns or raises; get_products returns; the wrapper stores
Retrieved(th, outcome) ==
    /\ t_pc[th] = "retrieving"
    /\ LET result == get_products_body(outcome)
       IN  /\ cache' = <<result>>
           /\ cache_time' = t_ct[th]
           /\ t_products' = [t_products EXCEPT ![th] = result]
           /\ last_good' = IF outcome.ok THEN <<result>> ELSE last_good
    /\ t_err' = [t_err EXCEPT ![th] = ~outcome.ok]
    /\ t_pc' = [t_pc EXCEPT ![th] = "gather"]
    /\ t_ct' = [t_ct EXCEPT ![th] = 0]
    /\ UNCHANGED <<now, sharedVars, update_thread, started, retrievals,
                   t_results, t_idx, t_pre, t_wake, t_begin, t_done, scriptVars>>

\* price_tasks = [...]; asyncio.gather(*price_tasks): every task issues its request
Gather(th) ==
    /\ t_pc[th] = "gather"
    /\ t_results' = [t_results EXCEPT ![th] =
                        [i \in 1..Len(t_products[th]) |-> Pending]]
    /\ t_pc' = [t_pc EXCEPT ![th] = "awaiting"]
    /\ UNCHANGED <<now, sharedVars, cacheVars, update_thread, started, t_ct, t_err,
                   t_products, t_idx, t_pre, t_wake, t_begin, t_done, scriptVars>>

\* one fetch_price_async task settles
Settle(th, i, outcome) ==
    /\ t_pc[th] = "awaiting"
    /\ i \in DOMAIN t_results[th]
    /\ t_results[th][i] = Pending
    /\ t_results' = [t_results EXCEPT ![th][i] =
                        fetch_price_result(t_products[th][i].id, outcome, now)]
    /\ UNCHANGED <<now, sharedVars, cacheVars, update_thread, started, t_pc, t_ct, t_err,
                   t_products, t_idx, t_pre, t_wake, t_begin, t_done, scriptVars>>

\* "await asyncio.gather(*price_tasks)" returns once every task has settled
joined(results) == \A i \in DOMAIN results : results[i] # Pending

InFlight(th) ==
    IF t_pc[th] = "awaiting"
    THEN {i \in DOMAIN t_results[th] : t_results[th][i] = Pending}
    ELSE {}

\* gather has returned; logos for the symbols that have none yet
FetchLogos(th, ok) ==
    /\ t_pc[th] = "awaiting"
    /\ joined(t_results[th])
    /\ LET new_products == {Symbol(t_products[th][i].id) : i \in DOMAIN t_products[th]}
                              \ crypto_logos
           got == IF ok THEN new_products ELSE {}
       IN  crypto_logos' = crypto_logos \cup got
    /\ t_idx' = [t_idx EXCEPT ![th] = 1]
    /\ t_pc' = [t_pc EXCEPT ![th] = "update"]
    /\ UNCHANGED <<now, price_windows, last_update, cacheVars, update_thread,
                   started, t_ct, t_err, t_products, t_results, t_pre, t_wake, t_begin, t_done, scriptVars>>

\* (variant: the deque created before "if result:" is tested)
skip_result_setdefault(d, product_id) ==
    IF HasKey(d, product_id) THEN d ELSE NewDeque(d, product_id)

\* what a falsy result does to price_windows: the body of "if result:" is skipped
skip_result(d, product_id) == d

\* (variant: the cycle started UPDATE_INTERVAL after the start of the one before,
\*  or at once when that one overran)
wake_time_fixed_rate(done, begin) ==
    IF done - begin <= UPDATE_INTERVAL THEN begin + UPDATE_INTERVAL ELSE done

\* "asyncio.run(...); time.sleep(UPDATE_INTERVAL)": when the sleep returns
wake_time(done, begin) == done + UPDATE_INTERVAL

\* (variant: "break" on a falsy result)
after_falsy_break(results, idx) == Len(results) + 1

\* where "for result in price_results" goes on after a falsy result
after_falsy(results, idx) == idx + 1

\* "for result in price_results": take the next result, or leave the loop
UpdateNext(th) ==
    /\ t_pc[th] = "update"
    /\ IF t_idx[th] > Len(t_results[th])
       THEN \* st.session_state.last_update = datetime.now(); asyncio.run returns;
            \* time.sleep(UPDATE_INTERVAL) begins
            \* (the locals of update_prices_async cease to exist)
            /\ last_update' = now
            /\ t_wake' = [t_wake EXCEPT ![th] = wake_time(now, t_begin[th])]
            /\ t_done' = [t_done EXCEPT ![th] = now]
            /\ t_pc' = [t_pc EXCEPT ![th] = "sleeping"]
            /\ t_products' = [t_products EXCEPT ![th] = <<>>]
            /\ t_results' = [t_results EXCEPT ![th] = <<>>]
            /\ t_idx' = [t_idx EXCEPT ![th] = 1]
            /\ t_pre' = [t_pre EXCEPT ![th] = <<>>]
            /\ UNCHANGED <<price_windows, t_begin>>
       ELSE LET result == t_results[th][t_idx[th]]
            IN  IF result = None
                THEN \* "if result:" is false
                     /\ t_idx' = [t_idx EXCEPT ![th] = after_falsy(t_results[th], t_idx[th])]
                     /\ price_windows' = skip_result(price_windows,
                                                     t_products[th][t_idx[th]].id)
                     /\ UNCHANGED <<last_update, t_pc, t_pre, t_wake, t_begin, t_done,
                                    t_products, t_results>>
                ELSE \* create the deque if the key is absent, enter update_window
                     /\ price_windows' =
                            IF HasKey(price_windows, result.product_id)
                            THEN price_windows
                            ELSE NewDeque(price_windows, result.product_id)
                     /\ t_pre' = [t_pre EXCEPT ![th] =
                            IF HasKey(price_windows, result.product_id)
                            THEN GetWin(price_windows, result.product_id)
                            ELSE <<>>]
                     /\ t_pc' = [t_pc EXCEPT ![th] = "uw"]
                     /\ UNCHANGED <<last_update, t_idx, t_wake, t_begin, t_done, t_products, t_results>>
    /\ UNCHANGED <<now, crypto_logos, cacheVars, update_thread, started, t_ct, t_err,
                   scriptVars>>

\* update_window: one test of the while loop, then popleft or append
UwStep(th) ==
    /\ t_pc[th] = "uw"
    /\ LET result == t_results[th][t_idx[th]]
           window == GetWin(price_windows, result.product_id)
       IN  IF stale(window, result.time)
           THEN /\ price_windows' = SetWin(price_windows, result.product_id, Tail(window))
                /\ UNCHANGED <<t_pc, t_idx>>
           ELSE /\ price_windows' = SetWin(price_windows, result.product_id,
                                       deque_append(window, <<result.time, result.price>>))
                /\ t_idx' = [t_idx EXCEPT ![th] = t_idx[th] + 1]
                /\ t_pc' = [t_pc EXCEPT ![th] = "update"]
    /\ UNCHANGED <<now, last_update, crypto_logos, cacheVars, update_thread, started,
                   t_ct, t_err, t_products, t_results, t_pre, t_wake, t_begin, t_done, scriptVars>>

\* time.sleep(UPDATE_INTERVAL) returns; "while True" starts the next cycle
Wake(th) ==
    /\ t_pc[th] = "sleeping"
    /\ now >= t_wake[th]
    /\ t_pc' = [t_pc EXCEPT ![th] = "get_products"]
    /\ t_wake' = [t_wake EXCEPT ![th] = 0]
    /\ t_begin' = [t_begin EXCEPT ![th] = now]
    /\ UNCHANGED <<now, sharedVars, cacheVars, update_thread, started, t_ct, t_err,
                   t_products, t_results, t_idx, t_pre, t_done, scriptVars>>

\* time passes while some refresh thread is blocked (network or sleep)
Blocked(th) ==
    \/ t_pc[th] = "retrieving"
    \/ InFlight(th) # {}
    \/ t_pc[th] = "sleeping" /\ now < t_wake[th]

Tick(d) ==
    /\ \E th \in Threads : Blocked(th)
    /\ now + d <= MaxClock
    /\ now' = now + d
    /\ UNCHANGED <<sharedVars, cacheVars, update_thread, started, threadVars, scriptVars>>

----------------------------------------------------------------------------
(* The script body: one run of the script per user interaction *)

\* (variant: the guard left out, a thread started by every run)
thread_absent_always(present) == TRUE

\* "if 'update_thread' not in st.session_state"
thread_absent(present) == ~present

\* a run of the script begins: lines 293-295
ScriptRun ==
    /\ c_pc = "idle"
    /\ IF thread_absent(update_thread) /\ started < MaxThreads
       THEN /\ update_thread' = TRUE
            /\ started' = started + 1
            /\ t_pc' = [t_pc EXCEPT ![started + 1] = "get_products"]
            /\ t_begin' = [t_begin EXCEPT ![started + 1] = now]
       ELSE UNCHANGED <<update_thread, started, t_pc, t_begin>>
    /\ c_pc' = "run"
    /\ c_exc' = "none"
    /\ obs' = NoObs
    /\ UNCHANGED <<now, sharedVars, cacheVars, t_ct, t_err, t_products, t_results, t_idx,
                   t_pre, t_wake, t_done, c_pos, c_size>>

\* tab1: price_windows.items() creates the iterator of the for loop
TabOneEnter ==
    /\ c_pc = "run"
    /\ c_pc' = "tab1"
    /\ c_pos' = 0
    /\ c_size' = Len(price_windows)
    /\ UNCHANGED <<now, sharedVars, cacheVars, update_thread, started, threadVars,
                   c_exc, obs>>

\* the refresh threads that are inside update_window for product k
Updating(k) ==
    {th \in Threads : t_pc[th] = "uw" /\ t_results[th][t_idx[th]].product_id = k}

\* what the script reads of one item, with the update in progress on it (if any)
Observe(item) ==
    LET ths == Updating(item.id)
        th  == CHOOSE x \in ths : TRUE
        res == t_results[th][t_idx[th]]
    IN  [kind |-> "read", id |-> item.id, snap |-> item.window,
         pre  |-> IF ths = {} THEN item.window ELSE t_pre[th],
         post |-> IF ths = {} THEN item.window
                  ELSE update_window(t_pre[th], res.time, res.price),
         computed |-> compute_pct_change(item.window)]

\* tab1: "for product_id, window in price_windows.items(): compute_pct_change(window)"
TabOneStep ==
    /\ c_pc = "tab1"
    /\ IF Len(price_windows) # c_size
       THEN \* dictionary changed size during iteration
            /\ c_exc' = "RuntimeError"
            /\ c_pc' = "idle"
            /\ UNCHANGED <<c_pos, obs>>
       ELSE IF c_pos = c_size
       THEN /\ c_pc' = "button"
            /\ obs' = NoObs
            /\ UNCHANGED <<c_pos, c_exc>>
       ELSE LET o == Observe(price_windows[c_pos + 1])
            IN  /\ obs' = o
                /\ IF o.computed = ZeroDivisionError
                   THEN /\ c_exc' = "ZeroDivisionError"
                        /\ c_pc' = "idle"
                        /\ UNCHANGED c_pos
                   ELSE /\ c_pos' = c_pos + 1
                        /\ UNCHANGED <<c_pc, c_exc>>
    /\ UNCHANGED <<now, sharedVars, cacheVars, update_thread, started, threadVars, c_size>>

\* 'if st.button("Refresh Data"): st.session_state.last_update = datetime.now()'
Button(clicked) ==
    /\ c_pc = "button"
    /\ last_update' = IF clicked THEN now ELSE last_update
    /\ c_pc' = "idle"
    /\ UNCHANGED <<now, price_windows, crypto_logos, cacheVars, update_thread, started,
                   threadVars, c_pos, c_size, c_exc, obs>>

----------------------------------------------------------------------------

Producer(th) ==
    \/ GetProductsCall(th)
    \/ \E outcome \in CatalogOutcomes : Retrieved(th, outcome)
    \/ Gather(th)
    \/ \E i \in DOMAIN t_results[th], outcome \in PriceOutcomes : Settle(th, i, outcome)
    \/ \E ok \in BOOLEAN : FetchLogos(th, ok)
    \/ UpdateNext(th)
    \/ UwStep(th)
    \/ Wake(th)

Script ==
    \/ ScriptRun
    \/ TabOneEnter
    \/ TabOneStep
    \/ \E clicked \in BOOLEAN : Button(clicked)

Next ==
    \/ \E th \in Threads : Producer(th)
    \/ \E d \in TickSteps : Tick(d)
    \/ Script

Spec == Init /\ [][Next]_vars

----------------------------------------------------------------------------
(* update_window alone: one deque, a sequence of calls with non-decreasing *)
(* timestamps, starting from the deque as the first append (at time 0)     *)
(* leaves it                                                               *)

\* <<seconds since the previous call, price>> of a call
WindowCalls == {<<0, 100>>, <<150, 110>>, <<151, 110>>}

TheWindow == price_windows[1].window

InitWindow ==
    /\ now = 0
    /\ price_windows = <<[id |-> 1, window |-> <<<<0, 100>>>>]>>
    /\ last_update = 0
    /\ crypto_logos = {}
    /\ cache = NoValue
    /\ cache_time = 0
    /\ update_thread = FALSE
    /\ started = 0
    /\ retrievals = 0
    /\ last_good = NoValue
    /\ t_pc = [th \in Threads |-> "not_started"]
    /\ t_ct = [th \in Threads |-> 0]
    /\ t_err = [th \in Threads |-> FALSE]
    /\ t_products = [th \in Threads |-> <<>>]
    /\ t_results = [th \in Threads |-> <<>>]
    /\ t_idx = [th \in Threads |-> 1]
    /\ t_pre = [th \in Threads |-> <<>>]
    /\ t_wake = [th \in Threads |-> 0]
    /\ t_begin = [th \in Threads |-> 0]
    /\ t_done = [th \in Threads |-> 0]
    /\ c_pc = "idle"
    /\ c_pos = 0
    /\ c_size = 0
    /\ c_exc = "none"
    /\ obs = NoObs

\* update_window(window, current_time, price) with current_time = now + d
WindowCall(d, price) ==
    /\ now + d <= MaxClockW
    /\ now' = now + d
    /\ price_windows' = SetWin(price_windows, 1, update_window(TheWindow, now + d, price))
    /\ UNCHANGED <<last_update, crypto_logos, cacheVars, update_thread, started,
                   threadVars, scriptVars>>

NextWindow == \E c \in WindowCalls : WindowCall(c[1], c[2])

SpecWindow == InitWindow /\ [][NextWindow]_vars

\* C1: immediately after a call of update_window with time now (the calls having
\* non-decreasing times), every sample left in the deque has now - timestamp
\* at most WINDOW_SECONDS.
C1_AgeBound ==
    \A i \in DOMAIN TheWindow : now - TheWindow[i][1] <= WINDOW_SECONDS

\* the call at 301 has removed the sample of time 0 (age 301) and kept that of 150
C1_Witness ==
    /\ now = 301
    /\ TheWindow = <<<<150, 110>>, <<301, 110>>>>

\* C2: after any append the deque holds at most DEQUE_MAXLEN samples; an append
\* to a full deque none of whose samples is stale drops the front sample: the
\* others keep their order and the new sample is last.
C2_Capacity ==
    [][ /\ Len(TheWindow') <= DEQUE_MAXLEN
        /\ (Len(TheWindow) = DEQUE_MAXLEN /\ now' - TheWindow[1][1] <= WINDOW_SECONDS)
             => /\ Len(TheWindow') = DEQUE_MAXLEN
                /\ \A i \in 1..(DEQUE_MAXLEN - 1) : TheWindow'[i] = TheWindow[i + 1]
                /\ TheWindow'[DEQUE_MAXLEN][1] = now' ]_vars

\* a full deque whose front is a sample appended at 150 after the one that
\* moved time to 150: that one, of age 0, was dropped by the cap
C2_Witness ==
    /\ now = 150
    /\ Len(TheWindow) = DEQUE_MAXLEN
    /\ TheWindow[1] = <<150, 100>>

----------------------------------------------------------------------------
(* compute_pct_change alone: the script body reads one deque, drawn from   *)
(* the deques of at most MaxSnap samples, while the refresh thread stands  *)
(* at the entry of update_window for that product                          *)

MaxSnap == 3

CalcPrices == {0, 90, 100, 110}

\* the i-th sample of a drawn deque was appended at 150 * (i - 1)
CalcTime(i) == 150 * (i - 1)

CalcWindows ==
    UNION {[1..n -> CalcPrices] : n \in 0..MaxSnap}

CalcWindow(prices) == [i \in 1..Len(prices) |-> <<CalcTime(i), prices[i]>>]

InitCalc ==
    /\ now = 450
    /\ \E prices \in CalcWindows :
          /\ price_windows = <<[id |-> 1, window |-> CalcWindow(prices)]>>
          /\ t_pre = [th \in Threads |-> IF th = 1 THEN CalcWindow(prices) ELSE <<>>]
    /\ last_update = 300
    /\ crypto_logos = {1}
    /\ cache = <<PayloadA>>
    /\ cache_time = 450
    /\ update_thread = TRUE
    /\ started = 1
    /\ retrievals = 2
    /\ last_good = <<PayloadA>>
    /\ t_pc = [th \in Threads |-> IF th = 1 THEN "uw" ELSE "not_started"]
    /\ t_ct = [th \in Threads |-> 0]
    /\ t_err = [th \in Threads |-> FALSE]
    /\ t_products = [th \in Threads |-> IF th = 1 THEN PayloadA ELSE <<>>]
    /\ t_results = [th \in Threads |->
                      IF th = 1 THEN <<fetch_price_result(1, Ticker(100), 450)>> ELSE <<>>]
    /\ t_idx = [th \in Threads |-> 1]
    /\ t_wake = [th \in Threads |-> 0]
    /\ t_begin = [th \in Threads |-> 0]
    /\ t_done = [th \in Threads |-> 0]
    /\ c_pc = "idle"
    /\ c_pos = 0
    /\ c_size = 0
    /\ c_exc = "none"
    /\ obs = NoObs

SpecCalc == InitCalc /\ [][Script]_vars

\* C3: compute_pct_change returns None exactly when the deque it is given is
\* empty; on a non-empty deque (whose first price is not zero) it returns the
\* first sample as baseline, the last as current and
\* (current - baseline) / baseline * 100 as change: 0 for a single sample,
\* 10 for 100 -> 110, -10 for 100 -> 90.
C3_PctChange ==
    obs.kind = "read" =>
        LET w == obs.snap
            r == obs.computed
            n == Len(w)
        IN  /\ (r = None) <=> (w = <<>>)
            /\ (w # <<>> /\ w[1][2] # 0) =>
                  /\ r.kind = "tuple"
                  /\ r.baseline_time = w[1][1] /\ r.baseline_price = w[1][2]
                  /\ r.current_time = w[n][1] /\ r.current_price = w[n][2]
                  /\ r.pct_change[2] > 0
                  /\ r.pct_change[1] * w[1][2] = (w[n][2] - w[1][2]) * 100 * r.pct_change[2]
                  /\ (n = 1) => r.pct_change = <<0, 1>>
                  /\ (w[1][2] = 100 /\ w[n][2] = 110) => r.pct_change = <<10, 1>>
                  /\ (w[1][2] = 100 /\ w[n][2] = 90) => r.pct_change = <<-10, 1>>

\* the script has read a deque of three samples going 100, 90, 110 and got 10
C3_Witness ==
    /\ obs.kind = "read"
    /\ obs.snap = <<<<0, 100>>, <<150, 90>>, <<300, 110>>>>
    /\ obs.computed.kind = "tuple"
    /\ obs.computed.pct_change = <<10, 1>>

----------------------------------------------------------------------------
(* Claims about the whole program, under Spec *)

\* C4: when the first sample of a non-empty deque has price zero, the change
\* calculation hands its caller a distinguishable DegenerateBaseline error and
\* the script run that called it is not ended by an exception.
C4_DegenerateBaseline ==
    (obs.kind = "read" /\ obs.snap # <<>> /\ obs.snap[1][2] = 0) =>
        /\ obs.computed.kind = "DegenerateBaseline"
        /\ c_exc = "none"

\* the result of fetch task i of thread th has been appended to its product's deque
Delivered(th, i) ==
    LET result == t_results[th][i]
    IN  /\ HasKey(price_windows, result.product_id)
        /\ LET window == GetWin(price_windows, result.product_id)
           IN  /\ window # <<>>
               /\ window[Len(window)] = <<result.time, result.price>>

\* C5: in a cycle, whichever fetches fail, the refresh thread reaches the update
\* loop and every result of a fetch that succeeded is appended to the deque of
\* its product: once the loop has passed position i, result i has been delivered.
C5_PartialFailure ==
    \A th \in Threads :
        t_pc[th] = "update" =>
            \A i \in DOMAIN t_results[th] :
                (i < t_idx[th] /\ t_results[th][i] # None) => Delivered(th, i)

\* the update loop has ended in a cycle whose first fetch failed and whose
\* second succeeded, and the second product has its sample
C5_Witness ==
    /\ t_pc[1] = "update"
    /\ Len(t_results[1]) = 2
    /\ t_idx[1] = 3
    /\ t_results[1][1] = None
    /\ t_results[1][2] # None
    /\ Delivered(1, 2)

\* C6: a call of get_products made less than CACHE_TIMEOUT after the call that
\* made the last retrieval returns the cached list and retrieves nothing; a call
\* made when the cache is absent or CACHE_TIMEOUT or more old makes exactly one
\* retrieval, and the cached list and its timestamp are replaced in one step,
\* by the list that call returns and the time the call was made.
C6_CacheTTL ==
    [][ /\ \A th \in Threads :
            /\ (t_pc[th] = "get_products" /\ t_pc'[th] # "get_products") =>
                  IF cache # NoValue /\ now - cache_time < CACHE_TIMEOUT
                  THEN /\ t_pc'[th] = "gather"
                       /\ t_products'[th] = cache[1]
                       /\ retrievals' = retrievals
                       /\ cache' = cache /\ cache_time' = cache_time
                  ELSE /\ t_pc'[th] = "retrieving"
                       /\ retrievals' = retrievals + 1
                       /\ cache' = cache /\ cache_time' = cache_time
            /\ (t_pc[th] = "retrieving" /\ t_pc'[th] # "retrieving") =>
                  /\ t_pc'[th] = "gather"
                  /\ retrievals' = retrievals
                  /\ cache' = <<t_products'[th]>>
                  /\ cache_time' = t_ct[th]
        /\ (cache' # cache \/ cache_time' # cache_time) =>
              \E th \in Threads : t_pc[th] = "retrieving" /\ t_pc'[th] = "gather"
      ]_vars

\* a cycle at 0 retrieved, a cycle at 150 used the cache (its sample is in a
\* deque, and the cache is not of 150), a cycle at 300 retrieved again
C6_Witness ==
    /\ t_pc[1] = "gather"
    /\ retrievals = 2
    /\ cache_time = 300
    /\ now = 300
    /\ \E k \in DOMAIN price_windows :
          LET w == price_windows[k].window
          IN  Len(w) = 2 /\ w[1][1] = 0 /\ w[2][1] = 150

\* C7: when a retrieval fails and a good list was retrieved before, get_products
\* returns that list and the cache still holds it; it returns the empty list
\* only when no good list was ever retrieved.
C7_StaleOnFailure ==
    \A th \in Threads :
        (t_pc[th] = "gather" /\ t_err[th]) =>
            IF last_good # NoValue
            THEN t_products[th] = last_good[1] /\ cache = last_good
            ELSE t_products[th] = <<>>

\* C8: whatever the interleaving of the script's reads with update_window, a
\* deque the script reads equals the deque as it was before the whole update or
\* as it is after the whole update (eviction and append).
C8_AtomicUpdate ==
    obs.kind = "read" => (obs.snap = obs.pre \/ obs.snap = obs.post)

\* the refresh threads that are inside a cycle (update_prices_async is running)
InCycle(th) ==
    t_pc[th] \in {"get_products", "retrieving", "gather", "awaiting", "update", "uw"}

\* C10: at most one refresh cycle is in progress at any time and at most one
\* refresh thread is ever started, however many times the script is run; a
\* cycle begins only from a thread that was sleeping or has just been started.
C10_OneCycle ==
    [][ /\ started' <= 1
        /\ Cardinality({th \in Threads : InCycle(th)'}) <= 1
        /\ \A th \in Threads :
              (~InCycle(th) /\ InCycle(th)') =>
                  /\ t_pc[th] \in {"not_started", "sleeping"}
                  /\ \A other \in Threads : ~InCycle(other)
      ]_vars

\* a run of the script that began after the first cycle had created a deque
\* (so a re-run) is under way while the one thread is in a later cycle
C10_Witness ==
    /\ c_pc = "tab1"
    /\ c_size > 0
    /\ started = 1
    /\ t_pc[1] = "awaiting"
    /\ last_update > 0

----------------------------------------------------------------------------
(* The fan-out of one cycle over a catalog of NumFanProducts instruments *)

PayloadFan == [i \in 1..NumFanProducts |-> Product(i, "USD")]

ProducerFan(th) ==
    \/ GetProductsCall(th)
    \/ Retrieved(th, Response(PayloadFan))
    \/ Gather(th)
    \/ \E i \in DOMAIN t_results[th] : Settle(th, i, Ticker(100))
    \/ FetchLogos(th, TRUE)
    \/ UpdateNext(th)
    \/ UwStep(th)

NextFan ==
    \/ \E th \in Threads : ProducerFan(th)
    \/ ScriptRun

SpecFan == Init /\ [][NextFan]_vars

\* C9: at every instant the number of price requests in flight is at most
\* MAX_WORKERS, however many instruments the catalog lists.
C9_BoundedFanOut ==
    \A th \in Threads : Cardinality(InFlight(th)) <= MAX_WORKERS

----------------------------------------------------------------------------
(* Further claims about update_window, under SpecWindow *)

\* the samples of window from the first one that is at most WINDOW_SECONDS old on
NotStaleFrom(window, current_time) ==
    LET fresh == {i \in DOMAIN window : current_time - window[i][1] <= WINDOW_SECONDS}
        first == IF fresh = {} THEN Len(window) + 1
                 ELSE CHOOSE i \in fresh : \A j \in fresh : i <= j
    IN  SubSeq(window, first, Len(window))

\* the scenario of the claim: WINDOW_SECONDS = 60, 100 at 0, 105 at 30, 102 at 61
Scenario60 ==
    update_window_in(update_window_in(update_window_in(<<>>, 0, 100, 60),
                                      30, 105, 60), 61, 102, 60)

\* C11 as stated: an update at time t removes exactly the leading samples older
\* than the window and keeps every other sample, in order, followed by the new
\* one; with a window of 60 the scenario gives [(30,105),(61,102)].
C11_ExactEviction ==
    [][ /\ TheWindow' = NotStaleFrom(TheWindow, now') \o <<TheWindow'[Len(TheWindow')]>>
        /\ TheWindow'[Len(TheWindow')][1] = now'
        /\ Scenario60 = <<<<30, 105>>, <<61, 102>>>> ]_vars

\* C11 as amended: the same, except that when DEQUE_MAXLEN samples are left
\* after the eviction the front one of them is dropped as well.
C11_ExactEvictionUpToCap ==
    [][ LET kept == NotStaleFrom(TheWindow, now')
            room == IF Len(kept) >= DEQUE_MAXLEN THEN Tail(kept) ELSE kept
        IN  /\ TheWindow' = room \o <<TheWindow'[Len(TheWindow')]>>
            /\ TheWindow'[Len(TheWindow')][1] = now'
            /\ Scenario60 = <<<<30, 105>>, <<61, 102>>>> ]_vars

\* the call at 300 has kept the sample of time 0, whose age equals the window
C11_Witness ==
    /\ now = 300
    /\ TheWindow = <<<<0, 100>>, <<150, 110>>, <<300, 110>>>>

----------------------------------------------------------------------------
(* Further claims about the whole program *)

\* C12: the refresh thread is the only mutator of the shared state: no step of
\* the script body writes the dict of deques, a deque, or last_update.
C12_ProducerOnlyMutator ==
    [][ scriptVars' # scriptVars =>
            (price_windows' = price_windows /\ last_update' = last_update) ]_vars

----------------------------------------------------------------------------
(* The refresh thread alone, with the progress its scheduling guarantees *)

NextStall ==
    \/ \E th \in Threads : Producer(th)
    \/ \E d \in TickSteps : Tick(d)
    \/ ScriptRun

\* The thread is scheduled, so each of its own steps is eventually taken; the
\* clock advances; time.sleep returns; a price or logo request made through the
\* aiohttp session settles (by an answer, an error, or the session's total
\* timeout).  requests.get(PRODUCTS_URL) is called without a timeout: nothing
\* makes Retrieved happen, so it has no fairness condition.
FairStall ==
    /\ WF_vars(\E d \in TickSteps : Tick(d))
    /\ \A th \in Threads :
          /\ WF_vars(GetProductsCall(th))
          /\ WF_vars(Gather(th))
          /\ WF_vars(\E i \in DOMAIN t_results[th], outcome \in PriceOutcomes :
                        Settle(th, i, outcome))
          /\ WF_vars(\E ok \in BOOLEAN : FetchLogos(th, ok))
          /\ WF_vars(UpdateNext(th))
          /\ WF_vars(UwStep(th))
          /\ WF_vars(Wake(th))

SpecStall == Init /\ [][NextStall]_vars /\ FairStall

\* C13: a refresh cycle that has begun eventually completes (the thread reaches
\* its sleep between cycles), even when an upstream call never responds.
C13_CycleCompletes ==
    \A th \in Threads : InCycle(th) ~> (t_pc[th] = "sleeping")

----------------------------------------------------------------------------

\* the instruments whose fetch failed in the cycle thread th is running
FailedIn(th) ==
    IF InCycle(th)
    THEN {t_products[th][i].id : i \in {j \in DOMAIN t_results[th] : t_results[th][j] = None}}
    ELSE {}

\* C14: no step of a cycle changes or creates the deque of an instrument whose
\* fetch failed in that cycle; a deque is created only by the step that takes
\* up a successful result for its instrument; a deque is never removed (the
\* keys stay, in their order).
C14_FailureLeavesBuffer ==
    [][ /\ \A th \in Threads : \A k \in FailedIn(th) :
              /\ HasKey(price_windows', k) = HasKey(price_windows, k)
              /\ HasKey(price_windows, k) =>
                    GetWin(price_windows', k) = GetWin(price_windows, k)
        /\ Len(price_windows') >= Len(price_windows)
        /\ \A n \in DOMAIN price_windows : price_windows'[n].id = price_windows[n].id
        /\ \A k \in Keys(price_windows') \ Keys(price_windows) :
              \E th \in Threads :
                  /\ t_pc[th] = "update"
                  /\ t_idx[th] \in DOMAIN t_results[th]
                  /\ t_results[th][t_idx[th]] # None
                  /\ t_results[th][t_idx[th]].product_id = k
      ]_vars

\* the update loop has gone past a failed fetch of an instrument that has a
\* deque with samples from an earlier cycle, and past a successful fetch of
\* another instrument
C14_Witness ==
    /\ t_pc[1] = "update"
    /\ Len(t_results[1]) = 2
    /\ t_idx[1] = 3
    /\ t_results[1][1] = None
    /\ t_results[1][2] # None
    /\ HasKey(price_windows, t_products[1][1].id)
    /\ GetWin(price_windows, t_products[1][1].id) # <<>>

\* C15: every sample stored in a deque has a strictly positive price.
C15_PositivePrices ==
    \A n \in DOMAIN price_windows :
        \A i \in DOMAIN price_windows[n].window : price_windows[n].window[i][2] > 0

----------------------------------------------------------------------------
(* Cycles over a catalog that lists one instrument twice *)

PayloadDup == <<Product(1, "USD"), Product(1, "USD")>>

ProducerDup(th) ==
    \/ GetProductsCall(th)
    \/ Retrieved(th, Response(PayloadDup))
    \/ Gather(th)
    \/ \E i \in DOMAIN t_results[th], outcome \in PriceOutcomes : Settle(th, i, outcome)
    \/ FetchLogos(th, TRUE)
    \/ UpdateNext(th)
    \/ UwStep(th)
    \/ Wake(th)

NextDup ==
    \/ \E th \in Threads : ProducerDup(th)
    \/ \E d \in TickSteps : Tick(d)
    \/ ScriptRun

SpecDup == Init /\ [][NextDup]_vars

\* C16: in every deque each sample's timestamp is not less than that of the
\* sample before it.
C16_TimeOrdered ==
    \A n \in DOMAIN price_windows :
        LET window == price_windows[n].window
        IN  \A i \in DOMAIN window :
                i > 1 => window[i - 1][1] <= window[i][1]

----------------------------------------------------------------------------

\* C17: while a price fetch dispatched in a cycle has not settled, no deque is
\* modified and last_update is not written.
C17_JoinBeforeUpdate ==
    [][ (\E th \in Threads : InFlight(th) # {}) =>
            (price_windows' = price_windows /\ last_update' = last_update) ]_vars

----------------------------------------------------------------------------
(* The timing of successive cycles, with a price request that takes a while *)

TimingSteps == {10, 20}

ProducerTiming(th) ==
    \/ GetProductsCall(th)
    \/ Retrieved(th, Response(PayloadA))
    \/ Gather(th)
    \/ \E i \in DOMAIN t_results[th] : Settle(th, i, Ticker(100))
    \/ FetchLogos(th, TRUE)
    \/ UpdateNext(th)
    \/ UwStep(th)
    \/ Wake(th)

\* time passes, and time.sleep returns when UPDATE_INTERVAL has elapsed: the
\* clock does not go past the instant at which a sleeping thread is to wake
TickOnTime(d) ==
    /\ \A th \in Threads : t_pc[th] = "sleeping" => now + d <= t_wake[th]
    /\ Tick(d)

NextTiming ==
    \/ \E th \in Threads : ProducerTiming(th)
    \/ \E d \in TimingSteps : TickOnTime(d)
    \/ ScriptRun

SpecTiming == Init /\ [][NextTiming]_vars

\* the step by which thread th leaves its sleep and begins a cycle
BeginsCycle(th) == t_pc[th] = "sleeping" /\ t_pc'[th] = "get_products"

\* C18 (as stated): a cycle begins UPDATE_INTERVAL after the beginning of the
\* cycle before it, or, when that cycle took longer than UPDATE_INTERVAL, at
\* the instant it completed.
C18_FixedPeriod ==
    [][ \A th \in Threads :
            BeginsCycle(th) =>
                /\ t_begin'[th] = now'
                /\ now' = IF t_done[th] - t_begin[th] <= UPDATE_INTERVAL
                          THEN t_begin[th] + UPDATE_INTERVAL
                          ELSE t_done[th]
      ]_vars

\* C18 (amended): a cycle begins no sooner than UPDATE_INTERVAL after the
\* completion of the cycle before it, whether or not that cycle took longer
\* than UPDATE_INTERVAL, and never before that cycle has completed.
C18_FixedDelay ==
    [][ \A th \in Threads :
            BeginsCycle(th) =>
                /\ t_begin'[th] = now'
                /\ t_done[th] >= t_begin[th]
                /\ now' >= t_done[th] + UPDATE_INTERVAL
      ]_vars

\* the first cycle began at 0 and took 40 (its sample is of 40), longer than
\* UPDATE_INTERVAL; the second cycle has just begun, at 70
C18_Witness ==
    /\ t_pc[1] = "get_products"
    /\ t_done[1] = 40
    /\ t_begin[1] = 70
    /\ now = 70
    /\ TheWindow = <<<<40, 100>>>>

----------------------------------------------------------------------------

\* C19: every deque that no thread is in the middle of updating is non-empty
\* and each of its samples is at most WINDOW_SECONDS older than its newest
\* (last appended) sample.
C19_WindowRelativeToNewest ==
    \A n \in DOMAIN price_windows :
        LET window == price_windows[n].window
        IN  Updating(price_windows[n].id) = {} =>
                /\ window # <<>>
                /\ \A i \in DOMAIN window :
                       window[Len(window)][1] - window[i][1] <= WINDOW_SECONDS

\* C20: while the script iterates over price_windows.items(), the map has the
\* keys it had when the iteration began (no key is inserted meanwhile).
C20_NoInsertDuringIteration ==
    c_pc = "tab1" => Len(price_windows) = c_size

====
